---- MODULE Spec2Model ----
(***************************************************************************)
(* ZomatoScraper (src/zomato_scraper.py): the link filter, the JSON store  *)
(* writer append_to_json_file and the polling loop monitor_for_new_urls,   *)
(* as run by main().                                                       *)
(*                                                                         *)
(* A URL string is a sequence of tokens.  The scheme-and-host part is one  *)
(* token, "/" is one token, every other token is a run of characters that  *)
(* holds no "/".  "order123" is <<"order", "123">>.  Hrefs hold no line    *)
(* breaks, so "." matches every token and "$" only the end of the string.  *)
(***************************************************************************)
EXTENDS Integers, Sequences, FiniteSets, TLC

\* Bounds of the model.
MaxSegs == 4      \* path segments of a URL handed to the filter alone
MaxDom == 2       \* anchors on the page at one tick
MaxPrior == 1     \* records in the store file before the run

ZOMATO == "https://www.zomato.com"
SLASH == "/"

\* str.lower on a token (src: city.lower(); re.IGNORECASE folds case alike).
Lower(t) ==
  CASE t = "HTTPS://WWW.ZOMATO.COM" -> ZOMATO
    [] t = "Delhi" -> "delhi"
    [] t = "ORDER" -> "order"
    [] OTHER -> t

\* str.rstrip('/') on the base_url argument.
RStripSlash(t) ==
  CASE t = "https://www.swiggy.com/" -> "https://www.swiggy.com"
    [] OTHER -> t

RECURSIVE JoinSegs(_)
JoinSegs(segs) ==
  IF segs = <<>> THEN <<>>
  ELSE <<SLASH>> \o Head(segs) \o JoinSegs(Tail(segs))

\* The string host/seg1/seg2/...
MkURL(host, segs) == <<host>> \o JoinSegs(segs)

SeqsUpTo(S, n) == UNION {[1..k -> S] : k \in 0..n}

----------------------------------------------------------------------------
(* filter_restaurant_urls, lines 65-89 *)

\* Index of the last token of the longest run of non-"/" tokens that starts
\* at i, or i-1 when u[i] is "/" or i is past the end: the greedy [^/]+.
RECURSIVE RunEnd(_, _)
RunEnd(u, i) ==
  IF i > Len(u) \/ u[i] = SLASH THEN i - 1 ELSE RunEnd(u, i + 1)

\* pattern.search(url): the end of group 1 when
\* ^(https://www\.zomato\.com/<city>/[^/]+)(/order.*)$ matches, else 0.
\* [^/]+ is followed by a literal "/", so the only candidate for the end of
\* the slug is the end of the run of non-"/" tokens.
PatternSearch(url, cty) ==
  IF /\ Len(url) >= 5
     /\ Lower(url[1]) = ZOMATO
     /\ url[2] = SLASH
     /\ Lower(url[3]) = Lower(cty)
     /\ url[4] = SLASH
  THEN LET e == RunEnd(url, 5)
       IN IF /\ e >= 5
             /\ e + 2 <= Len(url)
             /\ url[e + 1] = SLASH
             /\ Lower(url[e + 2]) = "order"
          THEN e ELSE 0
  ELSE 0

\* match.group(1)
Group1_Whole(url, e) == url
Group1(url, e) == SubSeq(url, 1, e)

FilterRestaurantUrls_Optional(urls, cty) ==
  { SubSeq(urls[k], 1, RunEnd(urls[k], 5)) :
      k \in { j \in 1..Len(urls) :
                /\ Len(urls[j]) >= 5
                /\ Lower(urls[j][1]) = ZOMATO
                /\ urls[j][2] = SLASH
                /\ Lower(urls[j][3]) = Lower(cty)
                /\ urls[j][4] = SLASH
                /\ RunEnd(urls[j], 5) >= 5 } }

FilterRestaurantUrls(urls, cty) ==
  { Group1(urls[k], PatternSearch(urls[k], cty)) :
      k \in { j \in 1..Len(urls) : PatternSearch(urls[j], cty) > 0 } }

----------------------------------------------------------------------------
(* get_all_links, lines 51-63 *)

Anchor(h, s) == [href |-> h, stale |-> s]

\* The hrefs read until the first stale element.
GetAllLinks_AbortOnStale(els) ==
  LET stale == {i \in 1..Len(els) : els[i].stale}
      n == IF stale = {} THEN Len(els)
           ELSE (CHOOSE i \in stale : \A j \in stale : i <= j) - 1
      read == SelectSeq(SubSeq(els, 1, n), LAMBDA el : el.href # <<>>)
  IN [i \in 1..Len(read) |-> read[i].href]

\* One pass of the for loop: a stale element raises
\* StaleElementReferenceException and is skipped, an empty href is dropped.
RECURSIVE GetAllLinks(_)
GetAllLinks(els) ==
  IF els = <<>> THEN <<>>
  ELSE LET el == Head(els)
       IN IF el.stale THEN GetAllLinks(Tail(els))
          ELSE IF el.href # <<>> THEN <<el.href>> \o GetAllLinks(Tail(els))
          ELSE GetAllLinks(Tail(els))

----------------------------------------------------------------------------
(* The program state *)

VARIABLES
  pc,             \* the statement main() executes next
  exc,            \* the exception that left main(), "none" while there is none
  base_url,       \* self.base_url
  city,           \* self.city
  next_id,        \* self.next_id
  output_file,    \* the contents of the file named self.output_file
  captured_urls,  \* monitor_for_new_urls: captured_urls
  elements,       \* get_all_links: elements, the anchors found at this tick
  all_links,      \* monitor_for_new_urls: all_links
  filtered_urls,  \* monitor_for_new_urls: filtered_urls
  new_urls,       \* monitor_for_new_urls: new_urls
  pending,        \* the urls of new_urls the for loop has not visited yet
  new_items,      \* monitor_for_new_urls: new_items
  data,           \* append_to_json_file: data, Unset outside the call
  log,            \* the last message the logger emitted (level INFO and up)
  printed,        \* the records announced by print, in order
  appended,       \* the argument of every append_to_json_file call, in order
  read_results,   \* how every append_to_json_file call got its data
  write_results,  \* the outcome of every append_to_json_file call that returned
  file0,          \* the contents of the store file when the run started
  stored_before,  \* the contents of the store file when the last call read it
  obs_once,       \* canonical urls that were in filtered_urls on some tick
  obs_twice       \* canonical urls that were in filtered_urls on two ticks

vars == <<pc, exc, base_url, city, next_id, output_file, captured_urls,
          elements, all_links, filtered_urls, new_urls, pending, new_items,
          data, log, printed, appended, read_results, write_results,
          file0, stored_before, obs_once, obs_twice>>

\* json values and file contents
Item(i, u) == [id |-> i, url |-> u]
FileAbsent == [kind |-> "absent", items |-> <<>>]
FileArray(items) == [kind |-> "array", items |-> items]
FileInvalid == [kind |-> "invalid", items |-> <<>>]    \* not JSON
FileOther == [kind |-> "other", items |-> <<>>]        \* JSON, not an array
FilePartial == [kind |-> "partial", items |-> <<>>]    \* truncated by open "w"
Unset == [kind |-> "unset", items |-> <<>>]
List(items) == [kind |-> "list", items |-> items]
NonList == [kind |-> "nonlist", items |-> <<>>]

\* The links a page of the run can show.
U_abc_order123 == MkURL(ZOMATO, << <<"bangalore">>, <<"abc">>, <<"order", "123">> >>)
U_abc_order == MkURL(ZOMATO, << <<"bangalore">>, <<"abc">>, <<"order">> >>)
U_xyz_order456 == MkURL(ZOMATO, << <<"bangalore">>, <<"xyz">>, <<"order", "456">> >>)
U_abc_menu == MkURL(ZOMATO, << <<"bangalore">>, <<"abc">>, <<"menu">> >>)
C_abc == MkURL(ZOMATO, << <<"bangalore">>, <<"abc">> >>)
C_xyz == MkURL(ZOMATO, << <<"bangalore">>, <<"xyz">> >>)
PageHrefs == {U_abc_order123, U_abc_order, U_xyz_order456, U_abc_menu}
Anchors ==
  {Anchor(h, FALSE) : h \in PageHrefs \cup {<<>>}} \cup {Anchor(U_abc_order123, TRUE)}
Doms == SeqsUpTo(Anchors, MaxDom)

\* The store files a run can find: none, garbage, a JSON object, or the
\* array an earlier run left.
PriorArrays == {[i \in 1..k |-> Item(i, C_abc)] : k \in 0..MaxPrior}
InitialFiles ==
  {FileAbsent, FileInvalid, FileOther} \cup {FileArray(a) : a \in PriorArrays}

\* The urls the filter is handed when it is exercised alone.
Hosts == {ZOMATO, "HTTPS://WWW.ZOMATO.COM", "https://www.swiggy.com"}
Segments ==
  {<<>>, <<"bangalore">>, <<"delhi">>, <<"abc">>, <<"order">>, <<"ORDER", "123">>, <<"menu">>}
FilterURLs == {MkURL(h, s) : h \in Hosts, s \in SeqsUpTo(Segments, MaxSegs)}

LoopPcs ==
  {"get_links", "filter", "diff", "assign", "append_load", "append_extend",
   "append_open", "append_dump", "update", "current_url", "sleep"}

\* Line 22: next_id of a new scraper, whatever the store file f holds.
InitialNextId_FromStore(f) == Len(f.items) + 1
InitialNextId(f) == 1

\* ZomatoScraper.__init__ with the arguments b, c and the store file f.
Construct(b, c, f) ==
  /\ exc = "none"
  /\ base_url = RStripSlash(b)
  /\ city = Lower(c)
  /\ next_id = InitialNextId(f)
  /\ output_file = f
  /\ file0 = f
  /\ stored_before = f
  /\ captured_urls = {}
  /\ log = "none"
  /\ printed = <<>>
  /\ appended = <<>>
  /\ read_results = <<>>
  /\ write_results = <<>>
  /\ obs_once = {}
  /\ obs_twice = {}

\* The locals of monitor_for_new_urls, get_all_links and append_to_json_file
\* before their first assignment.
NoLocals ==
  /\ elements = <<>>
  /\ filtered_urls = {}
  /\ new_urls = {}
  /\ pending = {}
  /\ new_items = <<>>
  /\ data = Unset

\* main(), line 162: the default base_url and city, any store file.
Init ==
  /\ pc = "init_driver"
  /\ \E f \in InitialFiles : Construct(ZOMATO, "bangalore", f)
  /\ all_links = <<>>
  /\ NoLocals

----------------------------------------------------------------------------
(* main(), lines 156-165: init_driver, load_page *)

\* An exception nothing catches leaves main().
Raise(e) ==
  /\ pc' = "raised"
  /\ exc' = e

\* init_driver, lines 28-39.
InitDriver ==
  /\ pc = "init_driver"
  /\ pc' = "load_page"
  /\ log' = "driver_ready"
  /\ UNCHANGED <<exc, base_url, city, next_id, output_file, captured_urls,
                 elements, all_links, filtered_urls, new_urls, pending,
                 new_items, data, printed, appended, write_results, read_results,
                 file0, stored_before, obs_once, obs_twice>>

\* webdriver.Chrome raises: no browser.
InitDriverFails ==
  /\ pc = "init_driver"
  /\ Raise("WebDriverException")
  /\ UNCHANGED <<base_url, city, next_id, output_file, captured_urls,
                 elements, all_links, filtered_urls, new_urls, pending,
                 new_items, data, log, printed, appended, write_results, read_results,
                 file0, stored_before, obs_once, obs_twice>>

\* load_page, lines 41-49: the wait either ends, or raises and is logged.
LoadPage ==
  /\ pc = "load_page"
  /\ pc' = "monitor"
  /\ \E timedOut \in BOOLEAN :
       log' = IF timedOut THEN "wait_error" ELSE "loading"
  /\ UNCHANGED <<exc, base_url, city, next_id, output_file, captured_urls,
                 elements, all_links, filtered_urls, new_urls, pending,
                 new_items, data, printed, appended, write_results, read_results, file0, stored_before,
                 obs_once, obs_twice>>

\* driver.get raises, line 43, outside the try.
LoadPageFails ==
  /\ pc = "load_page"
  /\ Raise("WebDriverException")
  /\ UNCHANGED <<base_url, city, next_id, output_file, captured_urls,
                 elements, all_links, filtered_urls, new_urls, pending,
                 new_items, data, log, printed, appended, write_results, read_results,
                 file0, stored_before, obs_once, obs_twice>>

----------------------------------------------------------------------------
(* monitor_for_new_urls, lines 118-153 *)

\* Lines 124-125.
StartMonitoring ==
  /\ pc = "monitor"
  /\ captured_urls' = {}
  /\ log' = "monitoring"
  /\ pc' = "get_links"
  /\ UNCHANGED <<exc, base_url, city, next_id, output_file, elements,
                 all_links, filtered_urls, new_urls, pending, new_items,
                 data, printed, appended, write_results, read_results, file0, stored_before,
                 obs_once, obs_twice>>

\* Line 130: the page shows any anchors at this tick.
MonitorGetLinks ==
  /\ pc = "get_links"
  /\ \E dom \in Doms :
       /\ elements' = dom
       /\ all_links' = GetAllLinks(dom)
  /\ pc' = "filter"
  /\ UNCHANGED <<exc, base_url, city, next_id, output_file, captured_urls,
                 filtered_urls, new_urls, pending, new_items, data, log,
                 printed, appended, write_results, read_results, file0, stored_before, obs_once, obs_twice>>

\* Line 130: find_elements, or get_attribute with another exception than
\* StaleElementReferenceException, raises; only KeyboardInterrupt is caught.
MonitorGetLinksFails ==
  /\ pc = "get_links"
  /\ Raise("WebDriverException")
  /\ UNCHANGED <<base_url, city, next_id, output_file, captured_urls,
                 elements, all_links, filtered_urls, new_urls, pending,
                 new_items, data, log, printed, appended, write_results, read_results,
                 file0, stored_before, obs_once, obs_twice>>

\* Line 132.  elements, the local of get_all_links, is gone by now.
MonitorFilter ==
  /\ pc = "filter"
  /\ filtered_urls' = FilterRestaurantUrls(all_links, city)
  /\ obs_once' = obs_once \cup filtered_urls'
  /\ obs_twice' = obs_twice \cup (filtered_urls' \cap obs_once)
  /\ elements' = <<>>
  /\ pc' = "diff"
  /\ UNCHANGED <<exc, base_url, city, next_id, output_file, captured_urls,
                 all_links, new_urls, pending, new_items, data,
                 log, printed, appended, write_results, read_results, file0, stored_before>>

\* Line 134.
NewUrls_NoDiff(filtered, captured) == filtered
NewUrls(filtered, captured) == filtered \ captured

\* Line 136: if new_urls.
HasNew_Always(urls) == TRUE
HasNew(urls) == urls # {}

\* Lines 134-137.  A for loop over no urls makes no pass, and line 145
\* is next.
MonitorDiff ==
  /\ pc = "diff"
  /\ new_urls' = NewUrls(filtered_urls, captured_urls)
  /\ IF HasNew(new_urls')
     THEN /\ new_items' = <<>>
          /\ pending' = new_urls'
          /\ IF new_urls' # {}
             THEN /\ pc' = "assign"
                  /\ UNCHANGED appended
             ELSE /\ pc' = "append_load"
                  /\ appended' = Append(appended, <<>>)
     ELSE /\ UNCHANGED <<new_items, pending, appended>>
          /\ pc' = "current_url"
  /\ UNCHANGED <<exc, base_url, city, next_id, output_file, captured_urls,
                 elements, all_links, filtered_urls, data, log, printed,
                 write_results, read_results, file0, stored_before,
                 obs_once, obs_twice>>

\* Line 141.
NextId_Same(n) == n
NextId(n) == n + 1

\* Lines 138-143, one pass of the for loop over the set new_urls, and after
\* the last pass the call of line 145.
MonitorAssign ==
  /\ pc = "assign"
  /\ \E url \in pending :
       LET item == Item(next_id, url)
       IN /\ next_id' = NextId(next_id)
          /\ printed' = Append(printed, item)
          /\ new_items' = Append(new_items, item)
          /\ pending' = pending \ {url}
          /\ IF pending' = {}
             THEN /\ appended' = Append(appended, new_items')
                  /\ pc' = "append_load"
             ELSE UNCHANGED <<appended, pc>>
  /\ UNCHANGED <<exc, base_url, city, output_file, captured_urls, elements,
                 all_links, filtered_urls, new_urls, data, log,
                 write_results, read_results, file0, stored_before, obs_once, obs_twice>>

----------------------------------------------------------------------------
(* append_to_json_file, lines 91-116 *)

\* json.load of a file that holds JSON, line 102.
JsonLoad(f) == IF f.kind = "array" THEN List(f.items) ELSE NonList

\* Line 107.
EmptyData == List(<<>>)

\* Line 105.
ReadErrorData_None == NonList
ReadErrorData == List(<<>>)

\* Lines 99-102 and 106-107: no file, or a file that is read and parsed.
AppendLoad ==
  /\ pc = "append_load"
  /\ output_file.kind \in {"absent", "array", "other"}
  /\ data' = IF output_file.kind = "absent" THEN EmptyData ELSE JsonLoad(output_file)
  /\ read_results' =
       Append(read_results, IF output_file.kind = "absent" THEN "absent" ELSE "ok")
  /\ stored_before' = output_file
  /\ pc' = "append_extend"
  /\ UNCHANGED <<exc, base_url, city, next_id, output_file, captured_urls,
                 elements, all_links, filtered_urls, new_urls, pending,
                 new_items, log, printed, appended, write_results, file0,
                 obs_once, obs_twice>>

\* Lines 103-105: open or read raises (any existing file), or json.load
\* raises (a file that is not JSON).
AppendLoadError ==
  /\ pc = "append_load"
  /\ output_file.kind # "absent"
  /\ log' = "read_error"
  /\ data' = ReadErrorData
  /\ read_results' = Append(read_results, "error")
  /\ stored_before' = output_file
  /\ pc' = "append_extend"
  /\ UNCHANGED <<exc, base_url, city, next_id, output_file, captured_urls,
                 elements, all_links, filtered_urls, new_urls, pending,
                 new_items, printed, appended, write_results, file0,
                 obs_once, obs_twice>>

\* list.extend
Extend_Replace(d, items) == List(items)
Extend_Prepend(d, items) == List(items \o d.items)
Extend(d, items) == List(d.items \o items)

\* Line 109, data a list.
AppendExtend ==
  /\ pc = "append_extend"
  /\ data.kind = "list"
  /\ data' = Extend(data, new_items)
  /\ pc' = "append_open"
  /\ UNCHANGED <<exc, base_url, city, next_id, output_file, captured_urls,
                 elements, all_links, filtered_urls, new_urls, pending,
                 new_items, log, printed, appended, write_results, read_results, file0, stored_before,
                 obs_once, obs_twice>>

\* Line 109, data no list: AttributeError, outside both try blocks.
AppendExtendFails ==
  /\ pc = "append_extend"
  /\ data.kind # "list"
  /\ Raise("AttributeError")
  /\ UNCHANGED <<base_url, city, next_id, output_file, captured_urls,
                 elements, all_links, filtered_urls, new_urls, pending,
                 new_items, data, log, printed, appended, write_results, read_results,
                 file0, stored_before, obs_once, obs_twice>>

\* Line 112: open(..., "w") creates or truncates the file.
AppendOpen ==
  /\ pc = "append_open"
  /\ output_file' = FilePartial
  /\ pc' = "append_dump"
  /\ UNCHANGED <<exc, base_url, city, next_id, captured_urls, elements,
                 all_links, filtered_urls, new_urls, pending, new_items,
                 data, log, printed, appended, write_results, read_results, file0, stored_before,
                 obs_once, obs_twice>>

\* Lines 112, 115-116: open raises, the file is as it was.
AppendOpenFails ==
  /\ pc = "append_open"
  /\ log' = "write_error"
  /\ write_results' = Append(write_results, "failed")
  /\ data' = Unset
  /\ pc' = "update"
  /\ UNCHANGED <<exc, base_url, city, next_id, output_file, captured_urls,
                 elements, all_links, filtered_urls, new_urls, pending,
                 new_items, printed, appended, read_results, file0, stored_before, obs_once,
                 obs_twice>>

\* Lines 113-114: json.dump writes all of data.
AppendDump ==
  /\ pc = "append_dump"
  /\ output_file' = FileArray(data.items)
  /\ write_results' = Append(write_results, "ok")
  /\ log' = "appended"
  /\ data' = Unset
  /\ pc' = "update"
  /\ UNCHANGED <<exc, base_url, city, next_id, captured_urls, elements,
                 all_links, filtered_urls, new_urls, pending, new_items,
                 printed, appended, read_results, file0, stored_before, obs_once, obs_twice>>

\* Lines 113, 115-116: a write raises, the file holds what was written.
AppendDumpFails ==
  /\ pc = "append_dump"
  /\ log' = "write_error"
  /\ write_results' = Append(write_results, "failed")
  /\ data' = Unset
  /\ pc' = "update"
  /\ UNCHANGED <<exc, base_url, city, next_id, output_file, captured_urls,
                 elements, all_links, filtered_urls, new_urls, pending,
                 new_items, printed, appended, read_results, file0, stored_before, obs_once,
                 obs_twice>>

----------------------------------------------------------------------------
(* monitor_for_new_urls, lines 146-153 *)

\* set.update, line 146.
UpdateSeen_Replace(captured, new) == new
UpdateSeen(captured, new) == captured \cup new

\* Line 146.
MonitorUpdate ==
  /\ pc = "update"
  /\ captured_urls' = UpdateSeen(captured_urls, new_urls)
  /\ pc' = "current_url"
  /\ UNCHANGED <<exc, base_url, city, next_id, output_file, elements,
                 all_links, filtered_urls, new_urls, pending, new_items,
                 data, log, printed, appended, write_results, read_results, file0, stored_before,
                 obs_once, obs_twice>>

\* Lines 148-149.
MonitorCurrentUrl ==
  /\ pc = "current_url"
  /\ pc' = "sleep"
  /\ UNCHANGED <<exc, base_url, city, next_id, output_file, captured_urls,
                 elements, all_links, filtered_urls, new_urls, pending,
                 new_items, data, log, printed, appended, write_results, read_results,
                 file0, stored_before, obs_once, obs_twice>>

\* Line 148: driver.current_url raises.
MonitorCurrentUrlFails ==
  /\ pc = "current_url"
  /\ Raise("WebDriverException")
  /\ UNCHANGED <<base_url, city, next_id, output_file, captured_urls,
                 elements, all_links, filtered_urls, new_urls, pending,
                 new_items, data, log, printed, appended, write_results, read_results,
                 file0, stored_before, obs_once, obs_twice>>

\* Line 151, and back to line 128.  The next pass assigns all_links,
\* filtered_urls, new_urls and new_items before it reads them: their old
\* values are dropped here.
MonitorSleep ==
  /\ pc = "sleep"
  /\ all_links' = <<>>
  /\ filtered_urls' = {}
  /\ new_urls' = {}
  /\ new_items' = <<>>
  /\ pc' = "get_links"
  /\ UNCHANGED <<exc, base_url, city, next_id, output_file, captured_urls,
                 elements, pending, data, log, printed, appended,
                 write_results, read_results, file0, stored_before, obs_once, obs_twice>>

\* Lines 127, 152-153: KeyboardInterrupt is raised at whatever statement of
\* the try block is running, the with blocks close their file, and the
\* handler logs.
KeyboardInterrupt ==
  /\ pc \in LoopPcs
  /\ pc' = "stopped"
  /\ log' = "stopped"
  /\ UNCHANGED <<exc, base_url, city, next_id, output_file, captured_urls,
                 elements, all_links, filtered_urls, new_urls, pending,
                 new_items, data, printed, appended, write_results, read_results, file0, stored_before,
                 obs_once, obs_twice>>

Next ==
  \/ InitDriver
  \/ InitDriverFails
  \/ LoadPage
  \/ LoadPageFails
  \/ StartMonitoring
  \/ MonitorGetLinks
  \/ MonitorGetLinksFails
  \/ MonitorFilter
  \/ MonitorDiff
  \/ MonitorAssign
  \/ AppendLoad
  \/ AppendLoadError
  \/ AppendExtend
  \/ AppendExtendFails
  \/ AppendOpen
  \/ AppendOpenFails
  \/ AppendDump
  \/ AppendDumpFails
  \/ MonitorUpdate
  \/ MonitorCurrentUrl
  \/ MonitorCurrentUrlFails
  \/ MonitorSleep
  \/ KeyboardInterrupt

Spec == Init /\ [][Next]_vars

----------------------------------------------------------------------------
(* filter_restaurant_urls alone: any constructor arguments, any one url *)

BaseUrlArgs == {ZOMATO, "https://www.swiggy.com/"}
CityArgs == {"bangalore", "Delhi"}

InitFilter ==
  /\ pc = "filter"
  /\ \E b \in BaseUrlArgs, c \in CityArgs : Construct(b, c, FileAbsent)
  /\ \E u \in FilterURLs : all_links = <<u>>
  /\ NoLocals

\* The filter's output handed to the filter again.
FilterAgain ==
  /\ pc = "diff"
  /\ \E u \in filtered_urls : all_links' = <<u>>
  /\ pc' = "filter"
  /\ UNCHANGED <<exc, base_url, city, next_id, output_file, captured_urls,
                 elements, filtered_urls, new_urls, pending, new_items,
                 data, log, printed, appended, write_results, read_results, file0, stored_before,
                 obs_once, obs_twice>>

NextFilter ==
  \/ MonitorFilter
  \/ FilterAgain

SpecFilter == InitFilter /\ [][NextFilter]_vars

----------------------------------------------------------------------------
(* The run's history, as the claims about the loop speak of it *)

\* The places of printed that hold a record for u.
RecordsFor(u) == {k \in 1..Len(printed) : printed[k].url = u}

\* The places <<call, position>> at which a record for u was passed to
\* append_to_json_file.
PassedFor(u) ==
  {c \in {<<i, k>> : i \in 1..Len(appended), k \in 1..Len(printed)} :
     c[2] <= Len(appended[c[1]]) /\ appended[c[1]][c[2]].url = u}

\* Every record passed to append_to_json_file.
PassedItems ==
  UNION {{appended[i][k] : k \in 1..Len(appended[i])} : i \in 1..Len(appended)}

RECURSIVE Concat(_)
Concat(batches) ==
  IF batches = <<>> THEN <<>> ELSE Head(batches) \o Concat(Tail(batches))

\* Every append_to_json_file call has returned.
NoCallInFlight == Len(write_results) = Len(appended)

StoredItems == {output_file.items[k] : k \in 1..Len(output_file.items)}

\* C1: a canonical url that was in filtered_urls on two or more ticks has
\* exactly one record and was passed to append_to_json_file exactly once,
\* and no url ever has more than one record.
C1_Deduplication ==
  /\ \A u \in obs_once :
       Cardinality(RecordsFor(u)) <= 1 /\ Cardinality(PassedFor(u)) <= 1
  /\ \A u \in obs_twice :
       Cardinality(RecordsFor(u)) = 1 /\ Cardinality(PassedFor(u)) = 1

\* C1 witness: a url whose batch failed to be written has been seen on a
\* second tick.
C1_Witness ==
  \E i \in 1..Len(write_results) :
    /\ write_results[i] = "failed"
    /\ \E k \in 1..Len(appended[i]) : appended[i][k].url \in obs_twice

\* C2: the k-th record created has id k.
C2_IdMonotonicity ==
  \A k \in 1..Len(printed) : printed[k].id = k

\* C2 witness: records were created on two ticks.
C2_Witness ==
  /\ Len(appended) >= 2
  /\ Len(printed) >= 2

C4_WriteFailureRecovery ==
  \A i \in 1..Len(write_results) :
    LET j == Len(write_results)
    IN ( /\ NoCallInFlight
         /\ i < j
         /\ \A m \in i..(j - 1) : write_results[m] = "failed"
         /\ write_results[j] = "ok" )
       => /\ output_file.kind = "array"
          /\ \A k \in 1..Len(appended[i]) : appended[i][k] \in StoredItems
          /\ \A k \in 1..Len(appended[j]) : appended[j][k] \in StoredItems

C6_GracefulStop ==
  pc = "stopped" =>
    /\ exc = "none"
    /\ (\A i \in 1..Len(write_results) : write_results[i] = "ok")
         => output_file.kind # "partial"

\* C7: only an interrupt or a failure of the renderer takes the loop out of
\* RUNNING.
C7_PerTickFailures ==
  pc \notin LoopPcs \cup {"init_driver", "load_page", "monitor"} =>
    \/ pc = "stopped"
    \/ pc = "raised" /\ exc = "WebDriverException"

\* C10: in STOPPED every record that was announced has been passed to
\* append_to_json_file and its url is in captured_urls.
C10_CooperativeCancellation ==
  pc = "stopped" =>
    \A k \in 1..Len(printed) :
      /\ printed[k] \in PassedItems
      /\ printed[k].url \in captured_urls

\* C11: whatever the store file holds, a run starts with next_id 1 and
\* an empty captured_urls; the first record of the run has id 1, exists
\* once a tick with a matching link has passed the for loop, and is
\* passed to append_to_json_file; and the first call, when it reads and
\* writes the file, puts its batch behind what the file held.
C11_FreshRunReset ==
  /\ printed = <<>> => (next_id = 1 /\ captured_urls = {})
  /\ printed # <<>> => printed[1].id = 1
  /\ (obs_once # {} /\ pc \in LoopPcs \ {"diff", "assign"}) => printed # <<>>
  /\ (appended # <<>> /\ printed # <<>>) => appended[1][1] = printed[1]
  /\ ( /\ Len(appended) = 1
       /\ Len(write_results) = 1
       /\ read_results[1] # "error"
       /\ write_results[1] = "ok" )
     => output_file = FileArray(file0.items \o appended[1])

\* C11 witness: the store held the record with id 1 for a url, and the run
\* has appended a second record with id 1 for the same url.
C11_Witness ==
  /\ file0 = FileArray(<<Item(1, C_abc)>>)
  /\ output_file = FileArray(<<Item(1, C_abc), Item(1, C_abc)>>)

\* The array a call found in the store file: empty when there was no file.
PrevArray(f) == IF f.kind = "array" THEN f.items ELSE <<>>

\* The last batch passed to append_to_json_file.
LastBatch == appended[Len(appended)]

\* The file holds n records of before the run followed by records of the
\* run with strictly increasing ids.
RunRecordsAfter(n) ==
  /\ \A k \in 1..n : output_file.items[k] = file0.items[k]
  /\ \A k \in n + 1..Len(output_file.items) :
       output_file.items[k] \in PassedItems
  /\ \A j, k \in n + 1..Len(output_file.items) :
       j < k => output_file.items[j].id < output_file.items[k].id

C13_WrongFormatStore ==
  file0.kind = "other" =>
    /\ exc # "AttributeError"
    /\ (Len(appended) = 1 /\ pc = "append_extend")
         => (data = List(<<>>) /\ log = "read_error")
    /\ (Len(appended) = 1 /\ NoCallInFlight /\ write_results = <<"ok">>)
         => output_file = FileArray(appended[1])

\* C14: on a tick whose new_urls is empty (no link matched, or every
\* filtered url is in captured_urls) append_to_json_file is not called and
\* no step of the tick changes next_id, captured_urls or the store file,
\* whatever the file holds.
C14_EmptyBatchTick ==
  [][ ( \/ (pc = "diff" /\ new_urls' = {})
        \/ (pc \in {"current_url", "sleep"} /\ new_urls = {}) )
      => /\ pc' \notin {"assign", "append_load"}
         /\ UNCHANGED <<next_id, captured_urls, output_file, appended,
                        printed, read_results, write_results>> ]_vars

\* C14 witness: a tick found only urls already in captured_urls while the
\* store file was corrupt, and has reached its sleep.
C14_Witness ==
  /\ pc = "sleep"
  /\ filtered_urls # {}
  /\ new_urls = {}
  /\ captured_urls # {}
  /\ output_file.kind = "invalid"

\* C15: when the write of a call has failed, at open or during the dump,
\* the array the call found in the file is still what the file holds.
C15_FailedWriteKeepsData ==
  ( /\ appended # <<>>
    /\ NoCallInFlight
    /\ write_results[Len(write_results)] = "failed"
    /\ stored_before.kind = "array" )
  => output_file = stored_before

\* The hrefs of a sequence of anchors, in its order.
Hrefs(els) == [i \in 1..Len(els) |-> els[i].href]

\* C16 as claimed: get_all_links returns, in the order of the page and with
\* duplicates, the href of every selected element that is not stale.
C16_StaleSkipped_AsClaimed ==
  pc = "filter" =>
    all_links = Hrefs(SelectSeq(elements, LAMBDA el : ~el.stale))

\* C16 amended: get_all_links returns, in the order of the page and with
\* duplicates, the href of every selected element that is not stale and
\* whose href reads as a non-empty value; a stale element does not keep
\* the hrefs of the elements behind it from the result.
C16_StaleSkipped ==
  pc = "filter" =>
    /\ all_links =
         Hrefs(SelectSeq(elements, LAMBDA el : ~el.stale /\ el.href # <<>>))
    /\ \A i, j \in 1..Len(elements) :
         (i < j /\ elements[i].stale /\ ~elements[j].stale
            /\ elements[j].href # <<>>)
         => \E k \in 1..Len(all_links) : all_links[k] = elements[j].href

\* C16 witness: the first element was stale and the href of the element
\* behind it was returned.
C16_Witness ==
  /\ pc = "filter"
  /\ Len(elements) = 2
  /\ elements[1].stale
  /\ ~elements[2].stale
  /\ all_links = <<elements[2].href>>

\* C17: no step of a run, the steps of a tick whose read or write of the
\* store file failed included, takes a url out of captured_urls.
C17_SeenSetMonotonicity ==
  [][captured_urls \subseteq captured_urls']_vars

\* C17 witness: captured_urls has grown over two ticks although a read and
\* a write of the store file failed.
C17_Witness ==
  /\ captured_urls = {C_abc, C_xyz}
  /\ Len(appended) = 2
  /\ \E i \in 1..Len(read_results) : read_results[i] = "error"
  /\ \E i \in 1..Len(write_results) : write_results[i] = "failed"

----------------------------------------------------------------------------
(* The url forms the claims about the filter speak of *)

\* u is https://<dom>/<cty>/<slug> followed by nothing or by "/" and any
\* suffix, case folded, the slug not empty and without "/".
HasFamilyForm(u, dom, cty) ==
  /\ Len(u) >= 5
  /\ Lower(u[1]) = Lower(dom)
  /\ u[2] = SLASH
  /\ Lower(u[3]) = Lower(cty)
  /\ u[4] = SLASH
  /\ u[5] # SLASH

\* The prefix of u up to and including the slug.
UpToSlug(u) ==
  SubSeq(u, 1, CHOOSE e \in 5..Len(u) :
                 /\ \A i \in 5..e : u[i] # SLASH
                 /\ e = Len(u) \/ u[e + 1] = SLASH)

\* u is https://www.zomato.com/<cty>/<slug>/order<anything>.
HasOrderForm(u, cty) ==
  /\ HasFamilyForm(u, ZOMATO, cty)
  /\ \E e \in 5..(Len(u) - 2) :
       /\ \A i \in 5..e : u[i] # SLASH
       /\ u[e + 1] = SLASH
       /\ Lower(u[e + 2]) = "order"

\* u is https://www.zomato.com/<cty>/<slug> and nothing more.
IsCanonical(u, cty) ==
  /\ HasFamilyForm(u, ZOMATO, cty)
  /\ \A i \in 5..Len(u) : u[i] # SLASH

Inputs == {all_links[k] : k \in 1..Len(all_links)}

\* C8 as claimed: once the filter has returned, its output is the prefix up
\* to the slug of every input of the form
\* https://<configured domain>/<configured city>/<slug>[/<suffix>], and
\* nothing else.
C8_FilterSoundness_AsClaimed ==
  pc = "diff" =>
    filtered_urls = {UpToSlug(u) : u \in {v \in Inputs : HasFamilyForm(v, base_url, city)}}

\* C8 amended: once the filter has returned, its output is the prefix up to
\* the slug of every input of the form
\* https://www.zomato.com/<configured city>/<slug>/order<anything>, and
\* nothing else: the domain is fixed and the /order suffix is required.
C8_FilterSoundness ==
  pc = "diff" =>
    filtered_urls = {UpToSlug(u) : u \in {v \in Inputs : HasOrderForm(v, city)}}

\* C8 witness: an input with a suffix behind /order has been trimmed to its
\* canonical url, the configured base_url being another domain.
C8_Witness ==
  /\ pc = "diff"
  /\ base_url # ZOMATO
  /\ \E u \in Inputs : HasOrderForm(u, city) /\ Len(u) > Len(UpToSlug(u)) + 2
                       /\ filtered_urls = {UpToSlug(u)}

\* C9 as claimed: the filter returns every canonical input unchanged.
C9_FilterIdempotence_AsClaimed ==
  pc = "diff" =>
    \A u \in Inputs : IsCanonical(u, city) => u \in filtered_urls

\* C9 amended: every url the filter returns is canonical, and the filter
\* returns nothing for a canonical input, so the filter applied to its own
\* output returns the empty set.
C9_FilterIdempotence ==
  pc = "diff" =>
    /\ \A v \in filtered_urls : IsCanonical(v, city)
    /\ (\A u \in Inputs : IsCanonical(u, city)) => filtered_urls = {}

\* C9 witness: the filter has been applied to a url it returned before and
\* has returned nothing.
C9_Witness ==
  /\ pc = "diff"
  /\ Inputs # {}
  /\ Inputs \subseteq obs_once
  /\ \A u \in Inputs : IsCanonical(u, city)
  /\ filtered_urls = {}

====
